---- MODULE Spec2Model ----
(***************************************************************************)
(* Model of the two CSV loaders of insert_data_mac:                        *)
(*   insert_company_with_csv.py      (companies, pre-check + DO NOTHING)   *)
(*   optimised_insert_peaple_data.py (people, ON CONFLICT DO UPDATE)       *)
(* Python strings are sequences of one-character strings, so that strip,   *)
(* lower, substring search and digit parsing are computed, not assumed.    *)
(***************************************************************************)
EXTENDS Integers, Sequences, FiniteSets, TLC

VARIABLES
    sizeIn,      \* normalize_size: the two calls' arguments
    sizeOut,     \* normalize_size: the results returned so far
    titleIn,     \* infer_seniority_level: the title argument
    titleOut,    \* infer_seniority_level: <<result>> once returned
    pipeline,    \* which script runs: "company", "people" or "none"
    pc,          \* where the script is
    run,         \* 1 on the first run over the input, 2 on the second
    csv_rows,    \* the rows of the input CSV file, as csv.DictReader yields them
    table,       \* the committed rows of companies / people_data
    initial_table, \* the table before the first run
    work,        \* the table as the open transaction of the connection sees it
    txn,         \* transaction status of the connection
    checked_out, \* connections taken from the pool and not yet put back
    batch_size,  \* the batch_size argument
    total_inserted, \* the running counter of both upserters
    log,         \* one entry per chunk: what the script logged or printed for it
    row_counts,  \* the number of rows in the table at the end of each run
    companies,   \* read_enriched_csv's result
    companies_to_insert, \* process_companies' first result
    skipped_companies,   \* process_companies' second result
    batch_start, \* the loop index i of insert_companies_batch
    values,      \* the tuples of the current chunk (company)
    page,        \* pages of the current chunk execute_values has sent
    raising,     \* _execute_batch_insert is leaving with an exception
    inserted_count, \* main's inserted_count, <<>> until assigned
    summary,     \* the PROCESSING SUMMARY main logs, <<>> until logged
    prepared_csv, \* the rows prepare_csv wrote
    pos,         \* rows of prepared_csv the reader has yielded
    batch        \* the tuples of the current chunk (people)

fnVars == <<sizeIn, sizeOut, titleIn, titleOut>>
dbVars == <<table, work, txn, checked_out>>
companyVars == <<companies, companies_to_insert, skipped_companies, batch_start, values, page,
                 raising, inserted_count, summary>>
peopleVars == <<prepared_csv, pos, batch>>
vars == <<sizeIn, sizeOut, titleIn, titleOut, pipeline, pc, run, csv_rows, table,
          initial_table, work, txn, checked_out, batch_size, total_inserted, log,
          row_counts, companies, companies_to_insert, skipped_companies, batch_start, values,
          page, raising, inserted_count, summary, prepared_csv, pos, batch>>

(***************************************************************************)
(* Bounds of the model.                                                    *)
(***************************************************************************)
Margin == 2          \* employee counts probed on each side of a threshold
MaxTitleWords == 4   \* words in a job title
MaxCompanies == 3    \* rows in the companies CSV
MaxPeople == 3       \* rows in the people CSV
MaxBatch == 3        \* the largest batch_size argument
PageSize == 2        \* execute_values' default page_size (100), scaled down

(***************************************************************************)
(* Python values.                                                          *)
(***************************************************************************)
\* Python's None: a one-element sequence that is no string of characters.
None == <<"<None>">>

UpperAlpha == <<"A","B","C","D","E","F","G","H","I","J","K","L","M",
                "N","O","P","Q","R","S","T","U","V","W","X","Y","Z">>
LowerAlpha == <<"a","b","c","d","e","f","g","h","i","j","k","l","m",
                "n","o","p","q","r","s","t","u","v","w","x","y","z">>
DigitChars == <<"0","1","2","3","4","5","6","7","8","9">>
WhiteSpace == {" ", "\t", "\n", "\r"}

\* truthiness of an Optional[str]
Truthy(s) == s # None /\ s # <<>>

LowerChar(c) ==
    IF \E i \in 1..26 : UpperAlpha[i] = c
    THEN LowerAlpha[CHOOSE i \in 1..26 : UpperAlpha[i] = c]
    ELSE c

\* str.lower()
Lower(s) == [i \in 1..Len(s) |-> LowerChar(s[i])]

RECURSIVE LStrip(_)
LStrip(s) ==
    IF s # <<>> /\ Head(s) \in WhiteSpace THEN LStrip(Tail(s)) ELSE s

RECURSIVE RStrip(_)
RStrip(s) ==
    IF s # <<>> /\ s[Len(s)] \in WhiteSpace
    THEN RStrip(SubSeq(s, 1, Len(s) - 1))
    ELSE s

\* str.strip()
Strip(s) == RStrip(LStrip(s))

\* str.replace(c, '') for a single character, and re.sub(r'\s+', '', s)
RemoveChars(s, cs) == SelectSeq(s, LAMBDA c : c \notin cs)

StartsWith(s, p) == Len(s) >= Len(p) /\ SubSeq(s, 1, Len(p)) = p

\* Python's `sub in s`
Contains(s, sub) ==
    \E i \in 1..(Len(s) - Len(sub) + 1) : SubSeq(s, i, i + Len(sub) - 1) = sub

IsDigitChar(c) == \E i \in 1..10 : DigitChars[i] = c
DigitValue(c) == (CHOOSE i \in 1..10 : DigitChars[i] = c) - 1

\* str.isdigit() (false on the empty string)
IsDigit(s) == s # <<>> /\ \A i \in 1..Len(s) : IsDigitChar(s[i])

\* int(s) for a string of decimal digits
RECURSIVE ParseInt(_)
ParseInt(s) ==
    IF s = <<>> THEN 0
    ELSE 10 * ParseInt(SubSeq(s, 1, Len(s) - 1)) + DigitValue(s[Len(s)])

\* str(n) for n >= 0
RECURSIVE Digits(_)
Digits(n) ==
    IF n < 10 THEN <<DigitChars[n + 1]>>
    ELSE Digits(n \div 10) \o <<DigitChars[(n % 10) + 1]>>

(***************************************************************************)
(* normalize_size                                                          *)
(***************************************************************************)
NoneLabel == "None"
ALLOWED_SIZES ==
    << "10,001+ employees", "5,001-10,000 employees", "1,001-5,000 employees",
       "501-1,000 employees", "201-500 employees", "51-200 employees",
       "11-50 employees", "1-10 employees" >>

\* the chain with every >= written as >
CountBucketStrict(count) ==
    IF count > 10001 THEN "10,001+ employees"
    ELSE IF count > 5001 THEN "5,001-10,000 employees"
    ELSE IF count > 1001 THEN "1,001-5,000 employees"
    ELSE IF count > 501 THEN "501-1,000 employees"
    ELSE IF count > 201 THEN "201-500 employees"
    ELSE IF count > 51 THEN "51-200 employees"
    ELSE IF count > 11 THEN "11-50 employees"
    ELSE "1-10 employees"

\* the if/elif chain over the numeric count
CountBucket(count) ==
    IF count >= 10001 THEN "10,001+ employees"
    ELSE IF count >= 5001 THEN "5,001-10,000 employees"
    ELSE IF count >= 1001 THEN "1,001-5,000 employees"
    ELSE IF count >= 501 THEN "501-1,000 employees"
    ELSE IF count >= 201 THEN "201-500 employees"
    ELSE IF count >= 51 THEN "51-200 employees"
    ELSE IF count >= 11 THEN "11-50 employees"
    ELSE "1-10 employees"

\* the text chain with the thresholds of the numeric chain
LowerBucketAsCount(lower) ==
    IF lower >= 10001 THEN "10,001+ employees"
    ELSE IF lower >= 5001 THEN "5,001-10,000 employees"
    ELSE IF lower >= 1001 THEN "1,001-5,000 employees"
    ELSE IF lower >= 501 THEN "501-1,000 employees"
    ELSE IF lower >= 201 THEN "201-500 employees"
    ELSE IF lower >= 51 THEN "51-200 employees"
    ELSE IF lower >= 11 THEN "11-50 employees"
    ELSE "1-10 employees"

\* the if/elif chain over the first number of the size text
LowerBucket(lower) ==
    IF lower >= 10000 THEN "10,001+ employees"
    ELSE IF lower >= 5000 THEN "5,001-10,000 employees"
    ELSE IF lower >= 1000 THEN "1,001-5,000 employees"
    ELSE IF lower >= 500 THEN "501-1,000 employees"
    ELSE IF lower >= 200 THEN "201-500 employees"
    ELSE IF lower >= 50 THEN "51-200 employees"
    ELSE IF lower >= 10 THEN "11-50 employees"
    ELSE "1-10 employees"

Range2(a, b) == Digits(a) \o <<"-">> \o Digits(b)
Plus(a) == Digits(a) \o <<"+">>

\* size_mapping, as <<key, label>> pairs
size_mapping ==
    { <<Plus(10000), "10,001+ employees">>, <<Plus(10001), "10,001+ employees">>,
      <<Range2(5000, 10000), "5,001-10,000 employees">>,
      <<Range2(5001, 10000), "5,001-10,000 employees">>,
      <<Range2(1000, 5000), "1,001-5,000 employees">>,
      <<Range2(1001, 5000), "1,001-5,000 employees">>,
      <<Range2(500, 1000), "501-1,000 employees">>,
      <<Range2(501, 1000), "501-1,000 employees">>,
      <<Range2(250, 500), "201-500 employees">>,
      <<Range2(201, 500), "201-500 employees">>,
      <<Range2(100, 250), "51-200 employees">>,
      <<Range2(51, 200), "51-200 employees">>,
      <<Range2(11, 50), "11-50 employees">>,
      <<Range2(1, 10), "1-10 employees">>,
      <<Range2(1, 100), "51-200 employees">> }

InMapping(k) == \E p \in size_mapping : p[1] = k
MappingOf(k) == (CHOOSE p \in size_mapping : p[1] = k)[2]

EmployeeWord == <<"e","m","p","l","o","y","e","e">>

\* re.sub(r'employees?', '', s)
RECURSIVE RemoveEmployees(_)
RemoveEmployees(s) ==
    IF s = <<>> THEN <<>>
    ELSE IF StartsWith(s, EmployeeWord \o <<"s">>)
         THEN RemoveEmployees(SubSeq(s, 10, Len(s)))
    ELSE IF StartsWith(s, EmployeeWord)
         THEN RemoveEmployees(SubSeq(s, 9, Len(s)))
    ELSE <<Head(s)>> \o RemoveEmployees(Tail(s))

RECURSIVE DigitRun(_)
DigitRun(s) ==
    IF s # <<>> /\ IsDigitChar(Head(s)) THEN <<Head(s)>> \o DigitRun(Tail(s))
    ELSE <<>>

\* re.findall(r'\d+', s)[0], or <<>> when s holds no digit
RECURSIVE FirstNumber(_)
FirstNumber(s) ==
    IF s = <<>> THEN <<>>
    ELSE IF IsDigitChar(Head(s)) THEN DigitRun(s)
    ELSE FirstNumber(Tail(s))

\* size_str: the size text lowered and stripped, '' when absent
SizeStr(employee_size_str) ==
    IF Truthy(employee_size_str) THEN Strip(Lower(employee_size_str)) ELSE <<>>

\* clean_size: size_str without whitespace and without the word employee(s)
CleanSize(employee_size_str) ==
    RemoveEmployees(RemoveChars(SizeStr(employee_size_str), WhiteSpace))

\* the text path of normalize_size: the lookup, then the first number
SizeTextBucket(employee_size_str) ==
    LET size_str == SizeStr(employee_size_str)
        clean_size == CleanSize(employee_size_str)
        numbers == FirstNumber(size_str)
    IN  IF InMapping(clean_size) THEN MappingOf(clean_size)
        ELSE IF numbers # <<>> THEN LowerBucket(ParseInt(numbers))
        ELSE NoneLabel

normalize_size(employee_count_str, employee_size_str) ==
    IF ~Truthy(employee_count_str) /\ ~Truthy(employee_size_str) THEN NoneLabel
    ELSE LET count_str == Strip(RemoveChars(employee_count_str, {","}))
         IN  IF count_str # <<>> /\ IsDigit(count_str)
             THEN CountBucket(ParseInt(count_str))
             ELSE SizeTextBucket(employee_size_str)

(***************************************************************************)
(* infer_seniority_level                                                   *)
(***************************************************************************)
CSuiteKeywords ==
    { <<"c","e","o">>,
      <<"c","f","o">>,
      <<"c","t","o">>,
      <<"c","o","o">>,
      <<"c","m","o">>,
      <<"c","h","i","e","f">>,
      <<"p","r","e","s","i","d","e","n","t">>,
      <<"f","o","u","n","d","e","r">> }

ExecVPKeywords ==
    { <<"e","v","p">>,
      <<"s","v","p">>,
      <<"e","x","e","c","u","t","i","v","e"," ","v","i","c","e"," ","p","r","e","s","i","d","e","n","t">>,
      <<"s","e","n","i","o","r"," ","v","i","c","e"," ","p","r","e","s","i","d","e","n","t">> }

VPKeywords ==
    { <<"v","i","c","e"," ","p","r","e","s","i","d","e","n","t">>,
      <<" ","v","p">>,
      <<"v","p"," ">> }

DirectorKeywords ==
    { <<"d","i","r","e","c","t","o","r">>,
      <<"h","e","a","d"," ","o","f">> }

ManagerKeywords ==
    { <<"m","a","n","a","g","e","r">> }

SeniorKeywords ==
    { <<"s","e","n","i","o","r">>,
      <<"s","r",".">>,
      <<"l","e","a","d">>,
      <<"p","r","i","n","c","i","p","a","l">> }

\* any(x in title_lower for x in keywords)
AnyIn(keywords, title_lower) == \E x \in keywords : Contains(title_lower, x)

infer_seniority_level(title) ==
    IF ~Truthy(title) THEN NoneLabel
    ELSE LET title_lower == Lower(title)
         IN  IF AnyIn(CSuiteKeywords, title_lower) THEN "C-Suite"
             ELSE IF AnyIn(ExecVPKeywords, title_lower) THEN "VP"
             ELSE IF AnyIn(VPKeywords, title_lower) THEN "VP"
             ELSE IF AnyIn(DirectorKeywords, title_lower) THEN "Director"
             ELSE IF Contains(title_lower, <<"m","a","n","a","g","e","r">>) THEN "Manager"
             ELSE IF AnyIn(SeniorKeywords, title_lower) THEN "Senior"
             ELSE "Individual Contributor"

(***************************************************************************)
(* Inputs of the two pure functions.                                       *)
(***************************************************************************)
TitleWords ==
    { <<"S","e","n","i","o","r">>,
      <<"D","i","r","e","c","t","o","r">>,
      <<"o","f">>,
      <<"S","a","l","e","s">>,
      <<"M","a","n","a","g","e","r">>,
      <<"S","V","P">>,
      <<"H","e","a","d">> }

\* ' '.join(words)
RECURSIVE JoinWords(_)
JoinWords(ws) ==
    IF ws = <<>> THEN <<>>
    ELSE IF Len(ws) = 1 THEN ws[1]
    ELSE ws[1] \o <<" ">> \o JoinWords(Tail(ws))

Titles ==
    { JoinWords(ws) : ws \in UNION { [1..k -> TitleWords] : k \in 1..MaxTitleWords } }

\* the counts at which the if/elif chains change their answer
Thresholds == {11, 51, 201, 501, 1001, 5001, 10001}
CountProbes ==
    (0..Margin) \cup UNION { (t - Margin - 1)..(t + Margin) : t \in Thresholds }

\* a call with the count in "# Employees" and no size text
CountArgs(n) == [n |-> n, kind |-> "count", count_str |-> Digits(n), size_str |-> <<>>]

\* free-text renderings of a size whose first number is n
SizeTexts(n) ==
    { Digits(n),
      Plus(n),
      <<"A","b","o","u","t"," ">> \o Digits(n),
      Digits(n) \o <<" ","E","m","p","l","o","y","e","e","s">>,
      <<" ">> \o Digits(n) \o <<" ","-"," ">> \o Digits(10 * n) }

\* a call with no count and the size text t in "Employee size"
TextArgs(n, t) == [n |-> n, kind |-> "text", count_str |-> <<>>, size_str |-> t]

SizeCallPairs ==
    { <<CountArgs(a), CountArgs(b)>> : a \in CountProbes, b \in CountProbes }
    \cup UNION { { <<CountArgs(n), TextArgs(n, t)>> : t \in SizeTexts(n) } : n \in CountProbes }
    \cup UNION { { <<CountArgs(n + 1), TextArgs(n, t)>> : t \in SizeTexts(n) } : n \in CountProbes }

(***************************************************************************)
(* The pure functions as state machines: the arguments are drawn in Init,  *)
(* each action is one call.                                                *)
(***************************************************************************)
FnIdle ==
    /\ sizeIn = <<>>
    /\ sizeOut = <<>>
    /\ titleIn = None
    /\ titleOut = <<>>

\* no script runs
PipelineIdle ==
    /\ pipeline = "none"
    /\ pc = "done"
    /\ run = 1
    /\ csv_rows = <<>>
    /\ table = <<>>
    /\ initial_table = <<>>
    /\ work = <<>>
    /\ txn = "idle"
    /\ checked_out = 0
    /\ batch_size = 1
    /\ total_inserted = 0
    /\ log = <<>>
    /\ row_counts = <<>>
    /\ companies = <<>>
    /\ companies_to_insert = <<>>
    /\ skipped_companies = <<>>
    /\ batch_start = 0
    /\ values = <<>>
    /\ page = 0
    /\ raising = FALSE
    /\ inserted_count = <<>>
    /\ summary = <<>>
    /\ prepared_csv = <<>>
    /\ pos = 0
    /\ batch = <<>>

pipelineVars == <<pipeline, pc, run, csv_rows, table, initial_table, work, txn,
                  checked_out, batch_size, total_inserted, log, row_counts, companies,
                  companies_to_insert, skipped_companies, batch_start, values, page, raising,
                  inserted_count, summary, prepared_csv, pos, batch>>

SizeInit ==
    /\ sizeIn \in SizeCallPairs
    /\ sizeOut = <<>>
    /\ titleIn = None
    /\ titleOut = <<>>
    /\ PipelineIdle

NormalizeSizeCall ==
    /\ Len(sizeOut) < Len(sizeIn)
    /\ LET args == sizeIn[Len(sizeOut) + 1]
       IN  sizeOut' = Append(sizeOut, normalize_size(args.count_str, args.size_str))
    /\ UNCHANGED <<sizeIn, titleIn, titleOut>>
    /\ UNCHANGED pipelineVars

SizeNext == NormalizeSizeCall

SizeSpec == SizeInit /\ [][SizeNext]_vars

SeniorityInit ==
    /\ titleIn \in Titles \cup {<<>>, None}
    /\ titleOut = <<>>
    /\ sizeIn = <<>>
    /\ sizeOut = <<>>
    /\ PipelineIdle

InferSeniorityCall ==
    /\ titleOut = <<>>
    /\ titleOut' = <<infer_seniority_level(titleIn)>>
    /\ UNCHANGED <<sizeIn, sizeOut, titleIn>>
    /\ UNCHANGED pipelineVars

SeniorityNext == InferSeniorityCall

SenioritySpec == SeniorityInit /\ [][SeniorityNext]_vars

(***************************************************************************)
(* Storage: a table is the sequence of its rows in insertion order.  The   *)
(* connection's transaction sees `work`; commit makes it the table.        *)
(***************************************************************************)
USER_ID == "632d6b76-0d5a-4074-b7e8-552b2a2aeb3d"
OTHER_USER == "another-user"

Min(a, b) == IF a <= b THEN a ELSE b

\* number of chunks range(0, n, size) yields
NumChunks(n, size) == (n + size - 1) \div size

\* INSERT INTO companies ... VALUES without a conflict clause on a table
\* without the unique constraint: every row is added
InsertAll(visible, rows) == visible \o rows

\* INSERT INTO companies ... VALUES rows ON CONFLICT (user_id, name) DO NOTHING:
\* a row is dropped when a visible row, or an earlier row of the statement, has
\* its (user_id, name)
RECURSIVE InsertDoNothing(_, _)
InsertDoNothing(visible, rows) ==
    IF rows = <<>> THEN visible
    ELSE LET r == Head(rows)
             conflict == \E k \in 1..Len(visible) :
                            /\ visible[k].user_id = r.user_id
                            /\ visible[k].name = r.name
         IN  InsertDoNothing(IF conflict THEN visible ELSE Append(visible, r), Tail(rows))

\* SELECT EXISTS(SELECT 1 FROM companies WHERE user_id = %s AND LOWER(name) = LOWER(%s))
company_exists(rows, company_name) ==
    \E k \in 1..Len(rows) :
        /\ rows[k].user_id = USER_ID
        /\ Lower(rows[k].name) = Lower(company_name)

(***************************************************************************)
(* read_enriched_csv                                                       *)
(***************************************************************************)
\* int(float(s)) for an unsigned s without exponent: digits, digits., .digits
\* or digits.digits give the whole part; anything else is a ValueError, and None
ParseEmployeeCount(s) ==
    LET whole == DigitRun(s)
        rest == SubSeq(s, Len(whole) + 1, Len(s))
    IN  IF whole # <<>> /\ (rest = <<>> \/ (Head(rest) = "." /\ (Tail(rest) = <<>> \/ IsDigit(Tail(rest)))))
        THEN ParseInt(whole)
        ELSE IF whole = <<>> /\ s # <<>> /\ Head(s) = "." /\ IsDigit(Tail(s))
        THEN 0
        ELSE None

\* float(s) is an infinity: int() of it raises OverflowError, which the
\* `except ValueError` of line 173 does not catch
FloatIsInfinite(s) ==
    LET unsigned == IF s # <<>> /\ Head(s) \in {"+", "-"} THEN Tail(s) ELSE s
    IN  Lower(unsigned) \in { <<"i","n","f">>, <<"i","n","f","i","n","i","t","y">> }

\* employee_count of a row: None when the cell is empty or does not parse
EmployeeCount(cell) ==
    LET employee_count_str == Strip(cell)
    IN  IF employee_count_str # <<>> THEN ParseEmployeeCount(employee_count_str) ELSE None

\* a cell DictReader left None (a row shorter than the header): .strip() raises
\* AttributeError; an infinite employee_count: int() raises OverflowError.  The
\* `except Exception` of line 196 skips the row with a warning.
RowRaises(row) ==
    \/ row.name = None \/ row.domain = None \/ row.employee_count = None
    \/ FloatIsInfinite(Strip(row.employee_count))

CompanyOfRow(row) ==
    [ name |-> Strip(row.name),
      domain |-> Strip(row.domain),
      employee_count |-> EmployeeCount(row.employee_count) ]

RECURSIVE ReadRows(_)
ReadRows(rows) ==
    IF rows = <<>> THEN <<>>
    ELSE IF RowRaises(Head(rows)) THEN ReadRows(Tail(rows))
    ELSE <<CompanyOfRow(Head(rows))>> \o ReadRows(Tail(rows))

(***************************************************************************)
(* Inputs of the company script.                                           *)
(***************************************************************************)
CompanyCsvRows ==
    { [name |-> <<"A","c">>, domain |-> <<"a",".","c">>, employee_count |-> <<"1","2",".","0">>],
      [name |-> <<" ","a","c"," ">>, domain |-> <<>>, employee_count |-> <<"n","/","a">>],
      [name |-> <<" ">>, domain |-> <<>>, employee_count |-> <<>>],
      [name |-> <<"B","c">>, domain |-> None, employee_count |-> None],
      [name |-> <<"C","c">>, domain |-> <<"c",".","c">>, employee_count |-> <<"i","n","f">>] }

StoredCompany(user, name) ==
    [user_id |-> user, name |-> name, domain |-> <<"o">>, employee_count |-> None]

\* contents of companies before the first run; each obeys UNIQUE (user_id, name)
CompanyTables ==
    { <<>>,
      <<StoredCompany(USER_ID, <<"A","C">>)>>,
      <<StoredCompany(OTHER_USER, <<"A","c">>), StoredCompany(USER_ID, <<"a","c">>)>> }

SeqsUpTo(S, n) == UNION { [1..k -> S] : k \in 0..n }

(***************************************************************************)
(* The company script: main, process_companies, insert_companies_batch,    *)
(* _execute_batch_insert.                                                   *)
(***************************************************************************)
CompanyInit ==
    /\ FnIdle
    /\ pipeline = "company"
    /\ pc = "read_csv"
    /\ run = 1
    /\ csv_rows \in SeqsUpTo(CompanyCsvRows, MaxCompanies)
    /\ table \in CompanyTables
    /\ initial_table = table
    /\ work = table
    /\ txn = "idle"
    /\ checked_out = 0
    /\ batch_size \in 1..MaxBatch
    /\ total_inserted = 0
    /\ log = <<>>
    /\ row_counts = <<>>
    /\ companies = <<>>
    /\ companies_to_insert = <<>>
    /\ skipped_companies = <<>>
    /\ batch_start = 0
    /\ values = <<>>
    /\ page = 0
    /\ raising = FALSE
    /\ inserted_count = <<>>
    /\ summary = <<>>
    /\ prepared_csv = <<>>
    /\ pos = 0
    /\ batch = <<>>

\* main: companies = read_enriched_csv()
ReadEnrichedCsv ==
    /\ pipeline = "company"
    /\ pc = "read_csv"
    /\ companies' = ReadRows(csv_rows)
    /\ pc' = "process"
    /\ UNCHANGED <<fnVars, dbVars, peopleVars, pipeline, run, csv_rows, initial_table,
                   batch_size, total_inserted, log, row_counts, companies_to_insert,
                   skipped_companies, batch_start, values, page, raising,
                   inserted_count, summary>>

\* DB_CONFIG["maxconn"]
maxconn == 10

\* a release that is skipped when the call leaves with an exception
ReleaseOnReturn(n, raised) == IF raised THEN n ELSE n - 1

\* finally: self.pool.putconn(conn), on return and on exception alike
Release(n, raised) == n - 1

\* enumerate's idx in process_companies: every company checked so far is in
\* one of the two lists
CheckedSoFar == Len(companies_to_insert) + Len(skipped_companies)

\* process_companies: db_manager.company_exists(company['name']) from
\* pool.getconn() to the end of the query.  getconn may fail (no connection can
\* be opened); the query may fail on the connection taken.
CompanyExistsCall ==
    /\ pipeline = "company"
    /\ pc = "process"
    /\ CheckedSoFar < Len(companies)
    /\ \E outcome \in {"ok", "query_error", "pool_error"} :
          \/ /\ outcome = "ok"
             /\ checked_out' = checked_out + 1
             /\ txn' = "intrans"
             /\ raising' = FALSE
             /\ pc' = "exists_finally"
          \/ /\ outcome = "query_error"
             /\ checked_out' = checked_out + 1
             /\ txn' = "inerror"
             /\ raising' = TRUE
             /\ pc' = "exists_finally"
          \/ /\ outcome = "pool_error"
             /\ pc' = "aborted"
             /\ UNCHANGED <<checked_out, txn, raising>>
    /\ UNCHANGED <<fnVars, peopleVars, pipeline, run, csv_rows, table, initial_table,
                   work, batch_size, total_inserted, log, row_counts, companies,
                   companies_to_insert, skipped_companies, batch_start, values, page,
                   inserted_count, summary>>

\* company_exists' finally clause, then lines 224-231 of process_companies; an
\* exception leaves process_companies and main
CompanyExistsReturn ==
    /\ pipeline = "company"
    /\ pc = "exists_finally"
    /\ checked_out' = Release(checked_out, raising)
    /\ txn' = "idle"
    /\ LET company == companies[CheckedSoFar + 1]
       IN  IF raising
           THEN /\ pc' = "aborted"
                /\ UNCHANGED <<companies_to_insert, skipped_companies>>
           ELSE /\ pc' = "process"
                /\ IF company_exists(table, company.name)
                   THEN /\ skipped_companies' = Append(skipped_companies, company)
                        /\ UNCHANGED companies_to_insert
                   ELSE /\ companies_to_insert' = Append(companies_to_insert, company)
                        /\ UNCHANGED skipped_companies
    /\ raising' = FALSE
    /\ UNCHANGED <<fnVars, peopleVars, pipeline, run, csv_rows, table, initial_table,
                   work, batch_size, total_inserted, log, row_counts, companies,
                   batch_start, values, page, inserted_count, summary>>

\* process_companies returns; main's test of line 252 and the start of
\* insert_companies_batch
ProcessCompanies ==
    /\ pipeline = "company"
    /\ pc = "process"
    /\ CheckedSoFar = Len(companies)
    /\ total_inserted' = 0
    /\ batch_start' = 0
    /\ pc' = IF companies_to_insert # <<>> THEN "batch" ELSE "summary"
    /\ UNCHANGED <<fnVars, dbVars, peopleVars, pipeline, run, csv_rows, initial_table,
                   batch_size, log, row_counts, companies, companies_to_insert,
                   skipped_companies, values, page, raising, inserted_count, summary>>

\* the tuple insert_companies_batch builds for a company
CompanyTuple(company) ==
    [ user_id |-> USER_ID,
      name |-> company.name,
      domain |-> company.domain,
      employee_count |-> company.employee_count ]

\* the slice companies[i:i + batch_size + 1]
CurrentBatchOverlapping ==
    SubSeq(companies_to_insert, batch_start + 1,
           Min(batch_start + batch_size + 1, Len(companies_to_insert)))

\* batch = companies[i:i + batch_size]
CurrentBatch ==
    SubSeq(companies_to_insert, batch_start + 1,
           Min(batch_start + batch_size, Len(companies_to_insert)))

\* one pass of the for loop up to pool.getconn() in _execute_batch_insert; when
\* getconn fails the exception is caught at line 126 and the loop goes on
NextBatch ==
    /\ pipeline = "company"
    /\ pc = "batch"
    /\ batch_start < Len(companies_to_insert)
    /\ values' = [k \in 1..Len(CurrentBatch) |-> CompanyTuple(CurrentBatch[k])]
    /\ page' = 0
    /\ raising' = FALSE
    /\ \E outcome \in {"ok", "pool_error"} :
          \/ /\ outcome = "ok"
             /\ checked_out' = checked_out + 1
             /\ pc' = "execute"
             /\ UNCHANGED <<log, batch_start>>
          \/ /\ outcome = "pool_error"
             /\ log' = Append(log, [run |-> run, kind |-> "error", n |-> Len(values')])
             /\ batch_start' = batch_start + batch_size
             /\ pc' = "batch"
             /\ UNCHANGED checked_out
    /\ UNCHANGED <<fnVars, peopleVars, pipeline, run, csv_rows, table, initial_table,
                   work, txn, batch_size, total_inserted, row_counts, companies,
                   companies_to_insert, skipped_companies, inserted_count, summary>>

\* the page execute_values sends next
CurrentPage ==
    SubSeq(values, page * PageSize + 1, Min((page + 1) * PageSize, Len(values)))

\* execute_values sends one INSERT per page of the chunk.  The statement may
\* succeed, be rejected by the server (the transaction is then aborted), or fail
\* in the client before it is sent (the transaction stays as it was).
ExecutePage ==
    /\ pipeline = "company"
    /\ pc = "execute"
    /\ \E outcome \in {"ok", "server_error", "client_error"} :
          \/ /\ outcome = "ok"
             /\ work' = InsertDoNothing(work, CurrentPage)
             /\ txn' = "intrans"
             /\ page' = page + 1
             /\ pc' = IF page' * PageSize >= Len(values) THEN "commit" ELSE "execute"
             /\ UNCHANGED raising
          \/ /\ outcome = "server_error"
             /\ txn' = "inerror"
             /\ raising' = TRUE
             /\ pc' = "finally"
             /\ UNCHANGED <<work, page>>
          \/ /\ outcome = "client_error"
             /\ raising' = TRUE
             /\ pc' = "finally"
             /\ UNCHANGED <<work, txn, page>>
    /\ UNCHANGED <<fnVars, peopleVars, pipeline, run, csv_rows, table, initial_table,
                   checked_out, batch_size, total_inserted, log, row_counts, companies,
                   companies_to_insert, skipped_companies, batch_start, values,
                   inserted_count, summary>>

\* conn.commit(): the server commits, or the commit fails and the transaction
\* is lost with the connection
CommitBatch ==
    /\ pipeline = "company"
    /\ pc = "commit"
    /\ \E outcome \in {"ok", "error"} :
          \/ /\ outcome = "ok"
             /\ table' = work
             /\ txn' = "idle"
             /\ UNCHANGED raising
          \/ /\ outcome = "error"
             /\ txn' = "unknown"
             /\ raising' = TRUE
             /\ UNCHANGED table
    /\ pc' = "finally"
    /\ UNCHANGED <<fnVars, peopleVars, pipeline, run, csv_rows, initial_table, work,
                   checked_out, batch_size, total_inserted, log, row_counts, companies,
                   companies_to_insert, skipped_companies, batch_start, values, page,
                   inserted_count, summary>>

\* a finally clause that commits whatever the connection holds
FinallyCommits(status, committed, seen) ==
    IF status = "intrans" THEN seen ELSE committed

\* the table after the finally clause: pool.putconn(conn) rolls back a
\* connection that is not idle and closes one whose state is unknown
FinallyTable(status, committed, seen) == committed

\* finally: pool.putconn(conn); then lines 124-127 of insert_companies_batch
PutConn ==
    /\ pipeline = "company"
    /\ pc = "finally"
    /\ table' = FinallyTable(txn, table, work)
    /\ work' = table'
    /\ txn' = "idle"
    /\ checked_out' = Release(checked_out, raising)
    /\ IF raising
       THEN /\ log' = Append(log, [run |-> run, kind |-> "error", n |-> Len(values)])
            /\ UNCHANGED total_inserted
       ELSE /\ total_inserted' = total_inserted + Len(values)
            /\ log' = Append(log, [run |-> run, kind |-> "inserted", n |-> Len(values)])
    /\ raising' = FALSE
    /\ batch_start' = batch_start + batch_size
    /\ pc' = "batch"
    /\ UNCHANGED <<fnVars, peopleVars, pipeline, run, csv_rows, initial_table,
                   batch_size, row_counts, companies, companies_to_insert,
                   skipped_companies, values, page, inserted_count, summary>>

\* return total_inserted; main assigns inserted_count
ReturnTotal ==
    /\ pipeline = "company"
    /\ pc = "batch"
    /\ batch_start >= Len(companies_to_insert)
    /\ inserted_count' = <<total_inserted>>
    /\ pc' = "summary"
    /\ UNCHANGED <<fnVars, dbVars, peopleVars, pipeline, run, csv_rows, initial_table,
                   batch_size, total_inserted, log, row_counts, companies,
                   companies_to_insert, skipped_companies, batch_start, values, page,
                   raising, summary>>

\* main: the PROCESSING SUMMARY
PrintSummary ==
    /\ pipeline = "company"
    /\ pc = "summary"
    /\ summary' = << [ total |-> Len(companies),
                       inserted |-> Len(companies_to_insert),
                       skipped |-> Len(skipped_companies) ] >>
    /\ row_counts' = Append(row_counts, Len(table))
    /\ pc' = "done"
    /\ UNCHANGED <<fnVars, dbVars, peopleVars, pipeline, run, csv_rows, initial_table,
                   batch_size, total_inserted, log, companies, companies_to_insert,
                   skipped_companies, batch_start, values, page, raising,
                   inserted_count>>

\* the script is started again on the same files
RunCompanyAgain ==
    /\ pipeline = "company"
    /\ pc = "done"
    /\ run = 1
    /\ run' = 2
    /\ pc' = "read_csv"
    /\ companies' = <<>>
    /\ companies_to_insert' = <<>>
    /\ skipped_companies' = <<>>
    /\ batch_start' = 0
    /\ values' = <<>>
    /\ page' = 0
    /\ total_inserted' = 0
    /\ inserted_count' = <<>>
    /\ summary' = <<>>
    /\ UNCHANGED <<fnVars, dbVars, peopleVars, pipeline, csv_rows, initial_table,
                   batch_size, log, row_counts, raising>>

CompanyNext ==
    \/ ReadEnrichedCsv
    \/ CompanyExistsCall
    \/ CompanyExistsReturn
    \/ ProcessCompanies
    \/ NextBatch
    \/ ExecutePage
    \/ CommitBatch
    \/ PutConn
    \/ ReturnTotal
    \/ PrintSummary
    \/ RunCompanyAgain

CompanySpec == CompanyInit /\ [][CompanyNext]_vars

(***************************************************************************)
(* process_csv_row and prepare_csv                                         *)
(***************************************************************************)
\* Python's `s or None`
OrNone(s) == IF s = <<>> THEN None ELSE s

\* datetime.now().isoformat() when the CSV is prepared, and an earlier time
PrepareTime == <<"t", "1">>
EarlierTime == <<"t", "0">>

\* the columns of INSERT_COLUMNS the model follows
process_csv_row(row) ==
    LET first_name == Strip(row.First_Name)
        last_name == Strip(row.Last_Name)
        full_name == Strip(first_name \o <<" ">> \o last_name)
    IN  [ company_name |-> OrNone(Strip(row.Company_Name)),
          name |-> OrNone(full_name),
          title |-> OrNone(Strip(row.Title)),
          years_experience |-> None,
          email_address |-> OrNone(Strip(row.Email)),
          last_updated_at |-> PrepareTime,
          confidence_score |-> 75,
          updated_at |-> PrepareTime ]

\* csv.DictWriter writes None as the empty cell
CsvText(v) == IF v = None THEN <<>> ELSE v

\* writer.writerow(processed)
WrittenRow(processed) ==
    [ company_name |-> CsvText(processed.company_name),
      name |-> CsvText(processed.name),
      title |-> CsvText(processed.title),
      years_experience |-> CsvText(processed.years_experience),
      email_address |-> CsvText(processed.email_address),
      last_updated_at |-> CsvText(processed.last_updated_at),
      confidence_score |-> Digits(processed.confidence_score),
      updated_at |-> CsvText(processed.updated_at) ]

\* the loop of prepare_csv: rows without a name are skipped
RECURSIVE PrepareRows(_)
PrepareRows(rows) ==
    IF rows = <<>> THEN <<>>
    ELSE LET processed == process_csv_row(Head(rows))
         IN  IF ~Truthy(processed.name) THEN PrepareRows(Tail(rows))
             ELSE <<WrittenRow(processed)>> \o PrepareRows(Tail(rows))

(***************************************************************************)
(* insert_from_csv_fast                                                    *)
(***************************************************************************)
NoneWord == <<"N","o","n","e">>

\* a text column: '' and 'None' become None
TextValue(val) == IF val = <<>> \/ val = NoneWord THEN None ELSE val

\* years_experience, confidence_score: '' and 'None' become None, else int(val)
IntValue(val) ==
    IF val = None \/ val = <<>> \/ val = NoneWord THEN None ELSE ParseInt(Strip(val))

\* int(val) raises ValueError: val is not an unsigned run of digits, blanks around
\* it aside (a cell DictReader left None is falsy and becomes None)
IntRaises(val) == val # None /\ val # <<>> /\ val # NoneWord /\ ~IsDigit(Strip(val))

\* building the tuple of a row raises
RowTupleRaises(row) == IntRaises(row.years_experience) \/ IntRaises(row.confidence_score)

\* tuple(values) for one row of the prepared CSV
RowTuple(row) ==
    [ company_name |-> TextValue(row.company_name),
      name |-> TextValue(row.name),
      title |-> TextValue(row.title),
      years_experience |-> IntValue(row.years_experience),
      email_address |-> TextValue(row.email_address),
      last_updated_at |-> TextValue(row.last_updated_at),
      confidence_score |-> IntValue(row.confidence_score),
      updated_at |-> TextValue(row.updated_at) ]

\* SQL equality of the conflict target (name, company_name, title): a NULL in
\* either key makes the comparison unknown, so the rows do not conflict
KeyConflict(a, b) ==
    /\ a.name # None /\ a.company_name # None /\ a.title # None
    /\ a.name = b.name
    /\ a.company_name = b.company_name
    /\ a.title = b.title

\* DO UPDATE SET updated_at = EXCLUDED.updated_at,
\*               last_updated_at = EXCLUDED.last_updated_at
ConflictUpdate(existing, excluded) ==
    [existing EXCEPT !.updated_at = excluded.updated_at,
                     !.last_updated_at = excluded.last_updated_at]

\* INSERT INTO people_data ... VALUES rows ON CONFLICT (name, company_name, title)
\* DO UPDATE ...  `touched` are the rows the statement has inserted or updated:
\* a second conflict on one of them is the error "ON CONFLICT DO UPDATE command
\* cannot affect row a second time" and the statement fails.
RECURSIVE Upsert(_, _, _)
Upsert(visible, rows, touched) ==
    IF rows = <<>> THEN [ok |-> TRUE, rows |-> visible]
    ELSE LET r == Head(rows)
             hits == { k \in 1..Len(visible) : KeyConflict(visible[k], r) }
         IN  IF hits = {}
             THEN Upsert(Append(visible, r), Tail(rows), touched \cup {Len(visible) + 1})
             ELSE LET k == CHOOSE h \in hits : TRUE
                  IN  IF k \in touched THEN [ok |-> FALSE, rows |-> visible]
                      ELSE Upsert([visible EXCEPT ![k] = ConflictUpdate(visible[k], r)],
                                  Tail(rows), touched \cup {k})

InsertOnConflictUpdate(visible, rows) == Upsert(visible, rows, {})

(***************************************************************************)
(* Inputs of the people script.                                            *)
(***************************************************************************)
Person(first, title, company, email) ==
    [ First_Name |-> first, Last_Name |-> <<"D","o">>, Title |-> title,
      Company_Name |-> company, Email |-> email ]

PeopleCsvRows ==
    { Person(<<"J","o">>, <<"D">>, <<"A">>, <<"x">>),
      Person(<<" ","J","o">>, <<"D">>, <<"A">>, <<"y">>),
      Person(<<"J","o">>, <<" ">>, <<"A">>, <<"x">>),
      [ First_Name |-> <<" ">>, Last_Name |-> <<>>, Title |-> <<"D">>,
        Company_Name |-> <<"A">>, Email |-> <<"x">> ] }

StoredPerson(title) ==
    [ company_name |-> <<"A">>, name |-> <<"J","o"," ","D","o">>, title |-> title,
      years_experience |-> None, email_address |-> <<"z">>,
      last_updated_at |-> EarlierTime, confidence_score |-> 75,
      updated_at |-> EarlierTime ]

\* a row of a prepared file that was written earlier or by another tool
Prepared(name, title, years_experience, email, confidence_score) ==
    [ company_name |-> <<"A">>, name |-> name, title |-> title,
      years_experience |-> years_experience, email_address |-> email,
      last_updated_at |-> PrepareTime, confidence_score |-> confidence_score,
      updated_at |-> PrepareTime ]

\* main inserts prepared files it finds on disk: rows with parsable, empty,
\* missing and unparsable numbers
PreparedCsvRows ==
    { Prepared(<<"J","o"," ","D","o">>, <<"D">>, <<"7">>, <<"x">>, <<"7","5">>),
      Prepared(<<"A","l">>, <<>>, <<>>, <<>>, None),
      Prepared(<<"B","o">>, <<"D">>, <<"3",".","5">>, <<"y">>, <<"7","5">>),
      Prepared(<<"C","y">>, <<"D">>, <<" ","7"," ">>, <<"y">>, <<"h","i","g","h">>) }

\* contents of people_data before the first run
PeopleTables == { <<>>, <<StoredPerson(<<"D">>)>>, <<StoredPerson(None)>> }

(***************************************************************************)
(* The people script: insert_from_csv_fast, on a file prepare_csv has just  *)
(* written or on a prepared file found on disk, as main runs it.           *)
(***************************************************************************)
PeopleInit ==
    /\ FnIdle
    /\ pipeline = "people"
    /\ run = 1
    /\ \/ /\ pc = "prepare"
          /\ csv_rows \in SeqsUpTo(PeopleCsvRows, MaxPeople)
          /\ prepared_csv = <<>>
       \/ /\ pc = "connect"
          /\ csv_rows = <<>>
          /\ prepared_csv \in SeqsUpTo(PreparedCsvRows, MaxPeople)
    /\ table \in PeopleTables
    /\ initial_table = table
    /\ work = table
    /\ txn = "idle"
    /\ checked_out = 0
    /\ batch_size \in 1..MaxBatch
    /\ total_inserted = 0
    /\ log = <<>>
    /\ row_counts = <<>>
    /\ companies = <<>>
    /\ companies_to_insert = <<>>
    /\ skipped_companies = <<>>
    /\ batch_start = 0
    /\ values = <<>>
    /\ page = 0
    /\ raising = FALSE
    /\ inserted_count = <<>>
    /\ summary = <<>>
    /\ pos = 0
    /\ batch = <<>>

\* prepare_csv(input_csv, output_csv)
PrepareCsv ==
    /\ pipeline = "people"
    /\ pc = "prepare"
    /\ prepared_csv' = PrepareRows(csv_rows)
    /\ pc' = "connect"
    /\ UNCHANGED <<fnVars, dbVars, companyVars, pipeline, run, csv_rows, initial_table,
                   batch_size, total_inserted, log, row_counts, pos, batch>>

\* insert_from_csv_fast up to the for loop: connect, autocommit off, batch = []
Connect ==
    /\ pipeline = "people"
    /\ pc = "connect"
    /\ work' = table
    /\ txn' = "idle"
    /\ total_inserted' = 0
    /\ batch' = <<>>
    /\ pos' = 0
    /\ pc' = "read"
    /\ UNCHANGED <<fnVars, companyVars, pipeline, run, csv_rows, table, initial_table,
                   checked_out, batch_size, log, row_counts, prepared_csv>>

\* one pass of `for row in reader` up to the test of len(batch); a ValueError
\* of int(val) leaves the loop for the except clause of line 363
ReadRow ==
    /\ pipeline = "people"
    /\ pc = "read"
    /\ pos < Len(prepared_csv)
    /\ pos' = pos + 1
    /\ IF RowTupleRaises(prepared_csv[pos + 1])
       THEN /\ pc' = "value_error"
            /\ UNCHANGED batch
       ELSE /\ batch' = Append(batch, RowTuple(prepared_csv[pos + 1]))
            /\ pc' = IF Len(batch') >= batch_size THEN "execute" ELSE "read"
    /\ UNCHANGED <<fnVars, dbVars, companyVars, pipeline, run, csv_rows, initial_table,
                   batch_size, total_inserted, log, row_counts, prepared_csv>>

\* the reader is exhausted: `if batch:` sends the final batch
EndOfFile ==
    /\ pipeline = "people"
    /\ pc = "read"
    /\ pos = Len(prepared_csv)
    /\ pc' = IF batch # <<>> THEN "final_execute" ELSE "completed"
    /\ UNCHANGED <<fnVars, dbVars, companyVars, peopleVars, pipeline, run, csv_rows,
                   initial_table, batch_size, total_inserted, log, row_counts>>

\* execute_values(cursor, insert_sql, batch, page_size=...): the page size is
\* the batch size (len(batch) for the final batch), so the chunk is one statement
ExecuteBatch ==
    /\ pipeline = "people"
    /\ pc \in {"execute", "final_execute"}
    /\ LET result == InsertOnConflictUpdate(work, batch)
       IN  \E outcome \in {"ok", "error"} :
              \/ /\ outcome = "ok"
                 /\ result.ok
                 /\ work' = result.rows
                 /\ txn' = "intrans"
                 /\ pc' = IF pc = "execute" THEN "commit" ELSE "final_commit"
              \/ /\ outcome = "error"
                 /\ txn' = "inerror"
                 /\ pc' = "except"
                 /\ UNCHANGED work
    /\ UNCHANGED <<fnVars, companyVars, peopleVars, pipeline, run, csv_rows, table,
                   initial_table, checked_out, batch_size, total_inserted, log,
                   row_counts>>

\* conn.commit(), total_inserted += len(batch), and in the loop batch = []
CommitPeople ==
    /\ pipeline = "people"
    /\ pc \in {"commit", "final_commit"}
    /\ \E outcome \in {"ok", "error"} :
          \/ /\ outcome = "ok"
             /\ table' = work
             /\ txn' = "idle"
             /\ total_inserted' = total_inserted + Len(batch)
             /\ log' = Append(log, [run |-> run, kind |-> "inserted", n |-> Len(batch)])
             /\ batch' = IF pc = "commit" THEN <<>> ELSE batch
             /\ pc' = IF pc = "commit" THEN "read" ELSE "completed"
          \/ /\ outcome = "error"
             /\ txn' = "unknown"
             /\ pc' = "except"
             /\ UNCHANGED <<table, total_inserted, log, batch>>
    /\ UNCHANGED <<fnVars, companyVars, pipeline, run, csv_rows, initial_table, work,
                   checked_out, batch_size, row_counts, prepared_csv, pos>>

\* the table after `except Exception`: conn.rollback()
ExceptTable(status, committed, seen) == committed

\* except Exception: print, conn.rollback(), raise; finally: conn.close()
ExceptRollback ==
    /\ pipeline = "people"
    /\ pc \in {"except", "value_error"}
    /\ table' = ExceptTable(txn, table, work)
    /\ work' = table'
    /\ txn' = "idle"
    /\ log' = IF pc = "except"
              THEN Append(log, [run |-> run, kind |-> "error", n |-> Len(batch)])
              ELSE log
    /\ row_counts' = Append(row_counts, Len(table'))
    /\ pc' = "aborted"
    /\ UNCHANGED <<fnVars, companyVars, peopleVars, pipeline, run, csv_rows,
                   initial_table, checked_out, batch_size, total_inserted>>

\* the COMPLETED report; finally: conn.close()
Completed ==
    /\ pipeline = "people"
    /\ pc = "completed"
    /\ row_counts' = Append(row_counts, Len(table))
    /\ pc' = "done"
    /\ UNCHANGED <<fnVars, dbVars, companyVars, peopleVars, pipeline, run, csv_rows,
                   initial_table, batch_size, total_inserted, log>>

\* insert_from_csv_fast is called again on the same prepared file
RunPeopleAgain ==
    /\ pipeline = "people"
    /\ pc \in {"done", "aborted"}
    /\ run = 1
    /\ run' = 2
    /\ pc' = "connect"
    /\ UNCHANGED <<fnVars, dbVars, companyVars, peopleVars, pipeline, csv_rows,
                   initial_table, batch_size, total_inserted, log, row_counts>>

PeopleNext ==
    \/ PrepareCsv
    \/ Connect
    \/ ReadRow
    \/ EndOfFile
    \/ ExecuteBatch
    \/ CommitPeople
    \/ ExceptRollback
    \/ Completed
    \/ RunPeopleAgain

PeopleSpec == PeopleInit /\ [][PeopleNext]_vars

(***************************************************************************)
(* Either script.                                                          *)
(***************************************************************************)
Init == CompanyInit \/ PeopleInit

Next == CompanyNext \/ PeopleNext

Spec == Init /\ [][Next]_vars

(***************************************************************************)
(* Properties of normalize_size.                                           *)
(***************************************************************************)
\* rank of a label in 1-10 < 11-50 < ... < 10,001+ (ALLOWED_SIZES lists them downwards)
BucketRank(label) == 9 - (CHOOSE i \in 1..8 : ALLOWED_SIZES[i] = label)

\* the range each label names; the last one is open-ended
BucketLow(label) ==
    CASE label = "1-10 employees" -> 1
      [] label = "11-50 employees" -> 11
      [] label = "51-200 employees" -> 51
      [] label = "201-500 employees" -> 201
      [] label = "501-1,000 employees" -> 501
      [] label = "1,001-5,000 employees" -> 1001
      [] label = "5,001-10,000 employees" -> 5001
      [] label = "10,001+ employees" -> 10001

BucketHigh(label) ==
    CASE label = "1-10 employees" -> 10
      [] label = "11-50 employees" -> 50
      [] label = "51-200 employees" -> 200
      [] label = "201-500 employees" -> 500
      [] label = "501-1,000 employees" -> 1000
      [] label = "1,001-5,000 employees" -> 5000
      [] label = "5,001-10,000 employees" -> 10000
      [] label = "10,001+ employees" -> 10001 + 10 * 10001

InLabelRange(n, label) ==
    /\ \E i \in 1..8 : ALLOWED_SIZES[i] = label
    /\ BucketLow(label) <= n
    /\ (label = "10,001+ employees" \/ n <= BucketHigh(label))

BothReturned == Len(sizeIn) = 2 /\ Len(sizeOut) = 2
TwoCounts == BothReturned /\ sizeIn[1].kind = "count" /\ sizeIn[2].kind = "count"

\* C8 as stated: for counts a <= b given as the numeric argument, the bucket of a
\* ranks no higher than the bucket of b, and every count, 0 included, lies in the
\* range its label names.
C8_MonotoneAndContained ==
    TwoCounts =>
        /\ sizeIn[1].n <= sizeIn[2].n => BucketRank(sizeOut[1]) <= BucketRank(sizeOut[2])
        /\ InLabelRange(sizeIn[1].n, sizeOut[1])

\* C8 amended: the bucket rank is monotone in the count for all counts >= 0, and
\* every count >= 1 lies in the range its label names; the count 0 is labelled
\* "1-10 employees".
C8_MonotoneAndContainedFromOne ==
    TwoCounts =>
        /\ sizeIn[1].n <= sizeIn[2].n => BucketRank(sizeOut[1]) <= BucketRank(sizeOut[2])
        /\ sizeIn[1].n >= 1 => InLabelRange(sizeIn[1].n, sizeOut[1])
        /\ sizeIn[1].n = 0 => sizeOut[1] = "1-10 employees"

\* two counts on either side of a threshold, both bucketed
C8_Witness ==
    /\ TwoCounts
    /\ sizeIn[1].n = 1000
    /\ sizeIn[2].n = 1001
    /\ BucketRank(sizeOut[1]) < BucketRank(sizeOut[2])

\* the second call took the text path and fell through the lookup table
FallbackCall ==
    /\ BothReturned
    /\ sizeIn[1].kind = "count"
    /\ sizeIn[2].kind = "text"
    /\ ~InMapping(CleanSize(sizeIn[2].size_str))

\* C9 as stated: when the size text misses the lookup table, the first integer n
\* of the text gets the bucket the numeric path gives the count n.
C9_FallbackEqualsNumeric ==
    (FallbackCall /\ sizeIn[1].n = sizeIn[2].n) => sizeOut[2] = sizeOut[1]

\* C9 amended: when the size text misses the lookup table, the first integer n of
\* the text is bucketed by thresholds one below the numeric path's (10, 50, 200,
\* 500, 1000, 5000, 10000): it gets the bucket the numeric path gives n + 1.
C9_FallbackEqualsNumericOfSuccessor ==
    (FallbackCall /\ sizeIn[1].n = sizeIn[2].n + 1) => sizeOut[2] = sizeOut[1]

\* the text "About 50" falls through the lookup and is bucketed like the count 51
C9_Witness ==
    /\ FallbackCall
    /\ sizeIn[2].n = 50
    /\ sizeIn[1].n = 51
    /\ sizeOut[2] = "51-200 employees"

(***************************************************************************)
(* Properties of infer_seniority_level.                                    *)
(***************************************************************************)
\* the title names the keyword: it occurs in the title as whole words
Names(title_lower, keyword) ==
    Contains(<<" ">> \o title_lower \o <<" ">>, <<" ">> \o Strip(keyword) \o <<" ">>)

NamesAny(keywords, title_lower) == \E x \in keywords : Names(title_lower, x)

\* the class of the highest-priority keyword set the title names
NamedSeniority(title) ==
    LET t == Lower(title)
    IN  IF NamesAny(CSuiteKeywords, t) THEN "C-Suite"
        ELSE IF NamesAny(ExecVPKeywords \cup VPKeywords, t) THEN "VP"
        ELSE IF NamesAny(DirectorKeywords, t) THEN "Director"
        ELSE IF NamesAny(ManagerKeywords, t) THEN "Manager"
        ELSE IF NamesAny(SeniorKeywords, t) THEN "Senior"
        ELSE "Individual Contributor"

\* C7 as stated: for every non-empty title the result is the class of the
\* highest-priority keyword set (C-Suite > VP > Director > Manager > Senior) the
\* title names, Individual Contributor when it names none; so a title naming
\* director and manager but no C-Suite or VP keyword is a Director.
C7_SeniorityPriority ==
    (titleOut # <<>> /\ Truthy(titleIn)) => titleOut[1] = NamedSeniority(titleIn)

(***************************************************************************)
(* Properties of the company script.                                       *)
(***************************************************************************)
\* rows of a companies table with the key (user, name)
RowsWithKey(rows, user, name) ==
    Cardinality({ k \in 1..Len(rows) : rows[k].user_id = user /\ rows[k].name = name })

NoDuplicateCompanies(rows) ==
    \A j, k \in 1..Len(rows) :
        (rows[j].user_id = rows[k].user_id /\ rows[j].name = rows[k].name) => j = k

\* records of the chunks of run r that the script logged with the given kind
RECURSIVE LoggedRecords(_, _, _)
LoggedRecords(entries, r, kind) ==
    IF entries = <<>> THEN 0
    ELSE (IF Head(entries).run = r /\ Head(entries).kind = kind THEN Head(entries).n ELSE 0)
         + LoggedRecords(Tail(entries), r, kind)

\* chunks of run r the script attempted
ChunksLogged(r) == Cardinality({ k \in 1..Len(log) : log[k].run = r })

NoWriteFailed(r) == \A k \in 1..Len(log) : log[k].run = r => log[k].kind # "error"

SecondRunDone == run = 2 /\ pc = "done"

\* C1 as stated: after the company script has run twice on the same input, the
\* table holds exactly one row for the key (USER_ID, name) of every record read,
\* and the second run added no row, whatever the table held at the start.
C1_TwoRunsOneRowPerKey ==
    (pipeline = "company" /\ SecondRunDone) =>
        /\ \A k \in 1..Len(companies) : RowsWithKey(table, USER_ID, companies[k].name) = 1
        /\ row_counts[2] = row_counts[1]

\* C1 amended: the company script never leaves two rows with the same
\* (user_id, name); and when no chunk write failed in the first run, the second
\* run adds no row and every name read has exactly one row for USER_ID, except a
\* name the table already held for USER_ID in some spelling of its case before the
\* first run: the pre-check skips it, so it has the rows it had then (one if that
\* very spelling was stored, else none).
C1_TwoRunsNoDuplicates ==
    pipeline = "company" =>
        /\ NoDuplicateCompanies(table)
        /\ (SecondRunDone /\ NoWriteFailed(1)) =>
              /\ row_counts[2] = row_counts[1]
              /\ \A k \in 1..Len(companies) :
                    RowsWithKey(table, USER_ID, companies[k].name) =
                        IF company_exists(initial_table, companies[k].name)
                        THEN RowsWithKey(initial_table, USER_ID, companies[k].name)
                        ELSE 1

\* the input names one key twice, the first run wrote it, the second run is over
C1_Witness ==
    /\ pipeline = "company"
    /\ SecondRunDone
    /\ NoWriteFailed(1)
    /\ Len(companies) >= 2
    /\ companies[1].name = companies[2].name
    /\ row_counts[1] = Len(initial_table) + 1
    /\ Len(table) = row_counts[1]

\* C5 as stated: the 'Companies inserted' figure of the summary excludes the
\* records of every chunk whose write failed; those records count as failed.
C5_SummaryExcludesFailedChunks ==
    (pipeline = "company" /\ summary # <<>>) =>
        summary[1].inserted =
            Len(companies_to_insert) - LoggedRecords(log, run, "error")

(***************************************************************************)
(* Properties of the people script and of both upserters.                  *)
(***************************************************************************)
\* the uniqueness key of a people_data row, NULLs included
PersonKey(r) == <<r.name, r.company_name, r.title>>

NoDuplicatePeople(rows) ==
    \A j, k \in 1..Len(rows) : PersonKey(rows[j]) = PersonKey(rows[k]) => j = k

\* C2 as stated: when insert_from_csv_fast has completed twice on the same
\* prepared file, people_data holds as many rows as after the first run, and no
\* two rows share (name, company_name, title), null titles and repeated keys
\* included.
C2_PeopleTwoRunsSameRows ==
    (pipeline = "people" /\ run = 2 /\ pc = "done" /\ NoWriteFailed(1)) =>
        /\ row_counts[2] = row_counts[1]
        /\ NoDuplicatePeople(table)

\* the records the upserter of the running script was given
RecordsToWrite == IF pipeline = "company" THEN companies_to_insert ELSE prepared_csv

RunEnded == pipeline # "none" /\ pc \in {"done", "aborted"}

\* C3 as stated: in both upserters a chunk whose write fails does not end the
\* run: every chunk of the input is attempted, whatever happened to the chunks
\* before it.
C3_EveryChunkAttempted ==
    (RunEnded /\ ~NoWriteFailed(run)) =>
        /\ pc # "aborted"
        /\ ChunksLogged(run) = NumChunks(Len(RecordsToWrite), batch_size)

\* the table once the whole current chunk is applied to it
WholeChunkApplied ==
    IF pipeline = "company" THEN InsertDoNothing(table, values)
    ELSE InsertOnConflictUpdate(table, batch).rows

\* the places of both scripts between the first write of a chunk and its end
ChunkInFlight == {"execute", "commit", "finally", "final_execute", "final_commit", "except"}

\* C4: in either upserter storage changes only by the commit of a chunk, and then
\* by the effect of all rows of that chunk at once; every other step, a failed
\* write or commit and the clean-up after it included, leaves storage as it was,
\* and once a chunk is over the connection holds nothing uncommitted that a later
\* commit could make visible.
C4_ChunkAtomic ==
    [][ /\ table' # table =>
              /\ pc \in {"commit", "final_commit"}
              /\ table' = WholeChunkApplied
        /\ (pipeline' # "none" /\ pc' \notin ChunkInFlight) => work' = table'
      ]_vars

\* a company chunk of two pages: the first page is written, the second failed,
\* and the connection is about to be put back with the first page uncommitted
C4_Witness ==
    /\ pipeline = "company"
    /\ pc = "finally"
    /\ raising
    /\ page = 1
    /\ Len(work) > Len(table)

\* C6 as stated: no tuple of a batch sent to storage has an empty or null name,
\* because records without the identity attribute are dropped before batching.
C6_NoNamelessRecordInBatch ==
    /\ \A k \in 1..Len(values) : values[k].name # <<>> /\ values[k].name # None
    /\ \A k \in 1..Len(batch) : batch[k].name # <<>> /\ batch[k].name # None

\* the key of tuple t is the key of a row of people_data
KeyStored(rows, t) == \E k \in 1..Len(rows) : PersonKey(rows[k]) = PersonKey(t)

\* the rows agree on every column but updated_at and last_updated_at
SameButTimestamps(a, b) ==
    [a EXCEPT !.updated_at = b.updated_at, !.last_updated_at = b.last_updated_at] = b

\* C10 as stated: when the statement of a chunk has been executed, every row
\* that was in people_data differs at most in updated_at and last_updated_at,
\* and if the key of every tuple written was already in people_data the number
\* of rows is unchanged.
C10_ConflictChangesOnlyTimestamps ==
    (pipeline = "people" /\ pc \in {"commit", "final_commit"}) =>
        /\ Len(work) >= Len(table)
        /\ \A k \in 1..Len(table) : SameButTimestamps(table[k], work[k])
        /\ (\A k \in 1..Len(batch) : KeyStored(table, batch[k])) => Len(work) = Len(table)

(***************************************************************************)
(* Properties of the connection pool.                                      *)
(***************************************************************************)
\* the places of the company script inside company_exists or
\* _execute_batch_insert, after pool.getconn()
InsideCall == {"exists_finally", "execute", "commit", "finally"}

\* C11: in the company script the number of connections taken from the pool and
\* not put back never exceeds maxconn, and it is 0 whenever the script is not
\* inside company_exists or _execute_batch_insert, whether the calls before
\* returned or raised.
C11_ScopedAcquisition ==
    pipeline = "company" =>
        /\ checked_out >= 0
        /\ checked_out <= maxconn
        /\ pc \notin InsideCall => checked_out = 0

\* company_exists has returned normally, the last _execute_batch_insert took a
\* connection, wrote a page and then raised, and the script is between calls
C11_Witness ==
    /\ pipeline = "company"
    /\ pc = "batch"
    /\ checked_out = 0
    /\ CheckedSoFar >= 1
    /\ page >= 1
    /\ log # <<>>
    /\ log[Len(log)].run = run
    /\ log[Len(log)].kind = "error"

(***************************************************************************)
(* Properties of the numeric and the optional fields.                      *)
(***************************************************************************)
\* the row has a cell for every column
AllCellsPresent(row) == row.name # None /\ row.domain # None /\ row.employee_count # None

\* a decimal number: digits with at most one point among them
IsDecimal(s) ==
    /\ IsDigit(RemoveChars(s, {"."}))
    /\ Len(s) - Len(RemoveChars(s, {"."})) <= 1

\* the cell holds something that is no number
UnparsableCount(cell) == Strip(cell) # <<>> /\ ~IsDecimal(Strip(cell))

\* the cell holds something that is no whole number
UnparsableInt(cell) == cell # None /\ Strip(cell) # <<>> /\ ~IsDigit(Strip(cell))

\* the row of the prepared file that tuple j of the batch was built from
SourceRow(j) == prepared_csv[pos - Len(batch) + j]

\* C12 as stated: a record whose numeric field does not parse is kept with that
\* field null.  Every row of the companies CSV that has all its cells yields a
\* company, with employee_count null when the cell does not parse; no row of
\* the prepared people file makes insert_from_csv_fast raise on its
\* years_experience or confidence_score, and the tuple in the batch has null there.
C12_UnparsableNumberBecomesNull ==
    /\ (pipeline = "company" /\ pc # "read_csv") =>
          LET kept == SelectSeq(csv_rows, AllCellsPresent)
          IN  /\ Len(companies) = Len(kept)
              /\ \A k \in 1..Len(kept) :
                    UnparsableCount(kept[k].employee_count) =>
                        companies[k].employee_count = None
    /\ pipeline = "people" =>
          /\ pc # "value_error"
          /\ pc \in {"read", "execute", "commit", "final_execute", "final_commit"} =>
                \A j \in 1..Len(batch) :
                    /\ UnparsableInt(SourceRow(j).years_experience) =>
                          batch[j].years_experience = None
                    /\ UnparsableInt(SourceRow(j).confidence_score) =>
                          batch[j].confidence_score = None

\* the optional text columns of a people_data tuple that the model follows
\* (the numeric ones hold an integer or null)
OptionalPersonColumns == {"company_name", "title", "email_address"}

\* C13 as stated: no tuple that either upserter sends to storage holds the
\* empty string in an optional attribute; an empty or missing column is null.
C13_AbsentIsNull ==
    /\ \A k \in 1..Len(values) : values[k].domain # <<>>
    /\ \A k \in 1..Len(batch) : \A col \in OptionalPersonColumns : batch[k][col] # <<>>

(***************************************************************************)
(* Properties of the counters and of the chunks.                           *)
(***************************************************************************)
\* rows in the table when the current run began
RowsAtStart == IF run = 1 THEN Len(initial_table) ELSE row_counts[1]

\* C14 as stated: the count insert_companies_batch returns, which main logs as
\* 'Successfully inserted N companies', is the number of rows the call added to
\* companies; a record dropped by ON CONFLICT DO NOTHING is not counted.
C14_InsertedCountIsRowsAdded ==
    (pipeline = "company" /\ inserted_count # <<>>) =>
        inserted_count[1] = Len(table) - RowsAtStart

\* the tuple of record k of the input of the running script's upserter
TupleToWrite(k) ==
    IF pipeline = "company" THEN CompanyTuple(companies_to_insert[k])
    ELSE RowTuple(prepared_csv[k])

\* tuples from+1 .. from+n of the input, in input order
TuplesFrom(from, n) == [j \in 1..n |-> TupleToWrite(from + j)]

\* records of the chunks of the current run that are over, written or failed
RecordsSubmitted == LoggedRecords(log, run, "inserted") + LoggedRecords(log, run, "error")

\* the chunk being sent, and where the scripts are while one is being sent
ChunkBeingSent == IF pipeline = "company" THEN values ELSE batch
Sending ==
    \/ pipeline = "company" /\ pc \in {"execute", "commit", "finally"}
    \/ pipeline = "people" /\ pc \in {"execute", "commit", "final_execute", "final_commit"}

\* the run is over and none of its chunks failed
EndedWithoutFailure ==
    /\ \/ pipeline = "company" /\ pc \in {"summary", "done"}
       \/ pipeline = "people" /\ pc \in {"completed", "done"}
    /\ NoWriteFailed(run)

\* the chunks are consecutive slices of the input, none empty, none longer than
\* batch_size, only the last one of a run shorter, and a run without failures
\* has sent every record
ChunksPartitionInput ==
    /\ Sending =>
          /\ ChunkBeingSent # <<>>
          /\ Len(ChunkBeingSent) <= batch_size
          /\ RecordsSubmitted + Len(ChunkBeingSent) <= Len(RecordsToWrite)
          /\ ChunkBeingSent = TuplesFrom(RecordsSubmitted, Len(ChunkBeingSent))
          /\ Len(ChunkBeingSent) < batch_size =>
                RecordsSubmitted + Len(ChunkBeingSent) = Len(RecordsToWrite)
          /\ \A k \in 1..Len(log) : log[k].run = run => log[k].n = batch_size
    /\ \A k \in 1..Len(log) :
          /\ log[k].n >= 1
          /\ log[k].n <= batch_size
          /\ log[k].n < batch_size => \A j \in (k + 1)..Len(log) : log[j].run # log[k].run
    /\ EndedWithoutFailure => RecordsSubmitted = Len(RecordsToWrite)

\* C15 as stated: both upserters send the records in input order, each in
\* exactly one chunk, no chunk empty or longer than batch_size, every chunk but
\* the last of size batch_size; a run without failures has sent all n records
\* and ends with an empty batch buffer.
C15_PartitionAndEmptyBuffer ==
    /\ ChunksPartitionInput
    /\ (pipeline = "people" /\ EndedWithoutFailure) => batch = <<>>

\* C15 amended: the partition as stated; a run without failures has sent all n
\* records, and the buffer of the people upserter is then empty only if n is a
\* multiple of batch_size: it is cleared after each full chunk but not after the
\* final partial one, which it still holds when the function returns.
C15_PartitionLastChunkKept ==
    /\ ChunksPartitionInput
    /\ (pipeline = "people" /\ EndedWithoutFailure) =>
          LET n == Len(RecordsToWrite)
          IN  batch = TuplesFrom(n - (n % batch_size), n % batch_size)

\* three prepared rows went out in chunks of two: a full chunk and a final one
\* of one record, which the buffer still holds at the end
C15_Witness ==
    /\ pipeline = "people"
    /\ pc = "completed"
    /\ NoWriteFailed(run)
    /\ Len(prepared_csv) = 3
    /\ batch_size = 2
    /\ ChunksLogged(run) = 2
    /\ Len(batch) = 1

====
